---- MODULE Spec2Model ----
(***************************************************************************)
(* Model of abscomp.py: fetch two Audiobookshelf libraries, rebuild each   *)
(* under its asin, compare the asin-keyed views in both directions and     *)
(* write the results.                                                      *)
(*                                                                         *)
(* A Python dict is modelled as a sequence of [key, value] entries with    *)
(* pairwise distinct keys, in insertion order.                             *)
(***************************************************************************)
EXTENDS Integers, Sequences, FiniteSets, TLC

\* ---------------------------------------------------------------- bounds
\* number of distinct item ids a server may hand out
MaxIds == 2
\* longest 'results' list of a response
MaxLen == 3

\* ---------------------------------------------------------------- values
IdName == <<"id1", "id2", "id3", "id4">>
TitleName == <<"title1", "title2", "title3", "title4">>
AuthorName == <<"author1", "author2", "author3", "author4">>
Asins == {"", "X", "Y"}

\* NOW is the run's date stamp; one fixed day is modelled
FILEBASE == "abscomp_books_240204_"

\* field order of the Book dataclass
BookFields == <<"id", "title", "author", "series", "year", "asin", "isbn", "added", "files", "size">>

\* the keys get_library reads from one element of response.json()['results']
ResultFields == {"id", "title", "authorName", "seriesName", "publishedYear", "asin", "isbn",
                 "addedAt", "numAudioFiles", "size"}

\* ---------------------------------------------------------------- dict
Keys(d) == {d[i].key : i \in 1..Len(d)}

Has(d, k) == k \in Keys(d)

Get(d, k) == d[CHOOSE i \in 1..Len(d) : d[i].key = k].value

KeySeq(d) == [i \in 1..Len(d) |-> d[i].key]

Values(d) == [i \in 1..Len(d) |-> d[i].value]

\* d[k] = v : replaces the value in place when k is present, appends otherwise
DictSet(d, k, v) ==
    IF Has(d, k)
    THEN [i \in 1..Len(d) |-> IF d[i].key = k THEN [key |-> k, value |-> v] ELSE d[i]]
    ELSE Append(d, [key |-> k, value |-> v])

\* ---------------------------------------------------------------- server side
\* one element of 'results' as the server sends it
RawResult(n, a) ==
    [id |-> IdName[n], title |-> TitleName[n], authorName |-> AuthorName[n], seriesName |-> "",
     publishedYear |-> "2020", asin |-> a, isbn |-> "", addedAt |-> "1700000000",
     numAudioFiles |-> "1", size |-> "100"]

\* the same element with one key absent
Without(r, f) == [g \in (DOMAIN r) \ {f} |-> r[g]]

RawResults ==
    {RawResult(n, a) : n \in 1..MaxIds, a \in Asins}
        \cup {Without(RawResult(1, "X"), f) : f \in {"asin", "title"}}

\* the request asks for '?sort=media.metadata.authorName': the server answers in
\* author order
AuthorRank(a) == CHOOSE n \in 1..Len(AuthorName) : AuthorName[n] = a

SortedByAuthor(rs) ==
    \A i, j \in 1..Len(rs) :
        i < j => AuthorRank(rs[i].authorName) <= AuthorRank(rs[j].authorName)

ResultLists == {rs \in UNION {[1..n -> RawResults] : n \in 0..MaxLen} : SortedByAuthor(rs)}

\* what requests.get / raise_for_status / response.json() can produce
Responses ==
    {[kind |-> k, results |-> <<>>] : k \in {"connection_error", "http_error", "invalid_json", "no_results"}}
        \cup {[kind |-> "ok", results |-> rs] : rs \in ResultLists}

\* the response carries a complete, well-formed catalog
IsComplete(resp) ==
    /\ resp.kind = "ok"
    /\ \A i \in 1..Len(resp.results) : DOMAIN resp.results[i] = ResultFields

ResponseIds(resp) ==
    {resp.results[i].id : i \in {j \in 1..Len(resp.results) : "id" \in DOMAIN resp.results[j]}}

\* ---------------------------------------------------------------- Book
Book(result) ==
    [id |-> result.id, title |-> result.title, author |-> result.authorName,
     series |-> result.seriesName, year |-> result.publishedYear, asin |-> result.asin,
     isbn |-> result.isbn, added |-> result.addedAt, files |-> result.numAudioFiles,
     size |-> result.size]

\* dataclasses.asdict(book).values(), in field order
asdict_values(book) == [i \in 1..Len(BookFields) |-> book[BookFields[i]]]

\* ---------------------------------------------------------------- get_library
\* the loop over response.json()['results']: a result lacking a key raises KeyError
RECURSIVE BuildLibrary(_, _)
BuildLibrary(results, title_library) ==
    IF results = <<>>
    THEN [outcome |-> "ok", library |-> title_library]
    ELSE IF DOMAIN Head(results) # ResultFields
         THEN [outcome |-> "crash", library |-> <<>>]
         ELSE BuildLibrary(Tail(results),
                           DictSet(title_library, Head(results).id, Book(Head(results))))

\* a get_library that skips what it cannot read and returns what it has
RECURSIVE BuildLibrarySkipping(_, _)
BuildLibrarySkipping(results, title_library) ==
    IF results = <<>>
    THEN [outcome |-> "ok", library |-> title_library]
    ELSE IF DOMAIN Head(results) # ResultFields
         THEN BuildLibrarySkipping(Tail(results), title_library)
         ELSE BuildLibrarySkipping(Tail(results),
                                   DictSet(title_library, Head(results).id, Book(Head(results))))

get_library_lenient(response) == BuildLibrarySkipping(response.results, <<>>)

\* outcome "ok": the returned dict; "exit": typer.Exit(code=1); "crash": an
\* exception nothing catches (requests' errors, KeyError)
get_library(response) ==
    CASE response.kind \in {"connection_error", "http_error"} -> [outcome |-> "crash", library |-> <<>>]
      [] response.kind = "invalid_json" -> [outcome |-> "exit", library |-> <<>>]
      [] response.kind = "no_results" -> [outcome |-> "crash", library |-> <<>>]
      [] OTHER -> BuildLibrary(response.results, <<>>)

\* ---------------------------------------------------------------- compare_libs
Reverse(q) == [i \in 1..Len(q) |-> q[Len(q) + 1 - i]]

\* variants of compare_libs with one slip each
compare_libs_right_values(lib_one, lib_two) ==
    LET InTwo(e) == Has(lib_two, e.key)
        NotInTwo(e) == ~Has(lib_two, e.key)
        shared == SelectSeq(lib_one, InTwo)
    IN  [both |-> [i \in 1..Len(shared) |->
                      [key |-> shared[i].key, value |-> Get(lib_two, shared[i].key)]],
         missing |-> SelectSeq(lib_one, NotInTwo)]

compare_libs_else_lost(lib_one, lib_two) ==
    LET InTwo(e) == Has(lib_two, e.key)
    IN  [both |-> SelectSeq(lib_one, InTwo), missing |-> <<>>]

compare_libs_inverted(lib_one, lib_two) ==
    LET InTwo(e) == Has(lib_two, e.key)
        NotInTwo(e) == ~Has(lib_two, e.key)
    IN  [both |-> SelectSeq(lib_one, NotInTwo), missing |-> SelectSeq(lib_one, InTwo)]

compare_libs_reversed(lib_one, lib_two) ==
    LET InTwo(e) == Has(lib_two, e.key)
        NotInTwo(e) == ~Has(lib_two, e.key)
    IN  [both |-> Reverse(SelectSeq(lib_one, InTwo)),
         missing |-> Reverse(SelectSeq(lib_one, NotInTwo))]

compare_libs_missing_all(lib_one, lib_two) ==
    LET InTwo(e) == Has(lib_two, e.key)
    IN  [both |-> SelectSeq(lib_one, InTwo), missing |-> lib_one]

RECURSIVE CompareLoop(_, _, _, _, _)
CompareLoop(lib_one, lib_two, i, both_books, missing_books) ==
    IF i > Len(lib_one)
    THEN [both |-> both_books, missing |-> missing_books]
    ELSE LET ab_one == lib_one[i].key
         IN  IF Has(lib_two, ab_one)
             THEN CompareLoop(lib_one, lib_two, i + 1,
                              DictSet(both_books, ab_one, Get(lib_one, ab_one)), missing_books)
             ELSE CompareLoop(lib_one, lib_two, i + 1,
                              both_books, DictSet(missing_books, ab_one, Get(lib_one, ab_one)))

compare_libs(lib_one, lib_two) == CompareLoop(lib_one, lib_two, 1, <<>>, <<>>)

\* ---------------------------------------------------------------- write_output
csv_header == <<"Title", "Author", "Series", "Year", "asin", "isbn">>

csv_rows(contents) ==
    <<csv_header>> \o [i \in 1..Len(contents) |-> asdict_values(contents[i].value)]

\* asdict of a Book is the Book's fields by name: the record itself
content_json(contents) ==
    [i \in 1..Len(contents) |-> [key |-> contents[i].key, value |-> contents[i].value]]

\* the files one call leaves behind, csv first
write_output(contents, out_type, flag_j, flag_c) ==
    (IF flag_c
     THEN <<[name |-> FILEBASE \o out_type \o ".csv", format |-> "csv", content |-> csv_rows(contents)]>>
     ELSE <<>>)
    \o
    (IF flag_j
     THEN <<[name |-> FILEBASE \o out_type \o ".json", format |-> "json", content |-> content_json(contents)]>>
     ELSE <<>>)

\* ---------------------------------------------------------------- state
VARIABLES
    pc,             \* where main is
    flag_c_csv,     \* -c / --csv
    flag_j_json,    \* -j / --json
    fetched,        \* per library: what the server answered (the model's record of the input)
    lib_one,        \* id-keyed catalog of library one
    lib_two,        \* id-keyed catalog of library two
    idx,            \* position of the running 'for ab in ....values()' loop
    lib_one_asin,   \* asin-keyed catalog of library one
    lib_two_asin,   \* asin-keyed catalog of library two
    first_compare,  \* compare_libs(lib_one_asin, lib_two_asin)
    second_compare, \* compare_libs(lib_two_asin, lib_one_asin)
    calls,          \* the write_output calls made so far
    files,          \* the files written so far
    report          \* the numbers of the 'Library Details' panel

vars == <<pc, flag_c_csv, flag_j_json, fetched, lib_one, lib_two, idx, lib_one_asin, lib_two_asin,
          first_compare, second_compare, calls, files, report>>

NoCompare == [both |-> <<>>, missing |-> <<>>]

Pending == [state |-> "pending", ids |-> {}]

Summary(response) ==
    [state |-> IF IsComplete(response) THEN "complete" ELSE "failed", ids |-> ResponseIds(response)]

Init ==
    /\ pc = "load_config"
    /\ flag_c_csv \in BOOLEAN
    /\ flag_j_json \in BOOLEAN
    /\ fetched = [One |-> Pending, Two |-> Pending]
    /\ lib_one = <<>>
    /\ lib_two = <<>>
    /\ idx = 1
    /\ lib_one_asin = <<>>
    /\ lib_two_asin = <<>>
    /\ first_compare = NoCompare
    /\ second_compare = NoCompare
    /\ calls = <<>>
    /\ files = <<>>
    /\ report = <<>>

\* ---------------------------------------------------------------- main
LoadConfig ==
    /\ pc = "load_config"
    /\ \E valid \in BOOLEAN : pc' = IF valid THEN "get_one" ELSE "exit"
    /\ UNCHANGED <<flag_c_csv, flag_j_json, fetched, lib_one, lib_two, idx, lib_one_asin,
                   lib_two_asin, first_compare, second_compare, calls, files, report>>

GetLibraryOne ==
    /\ pc = "get_one"
    /\ \E response \in Responses :
        LET got == get_library(response)
        IN  /\ fetched' = [fetched EXCEPT !.One = Summary(response)]
            /\ lib_one' = got.library
            /\ pc' = IF got.outcome = "ok" THEN "get_two" ELSE got.outcome
    /\ UNCHANGED <<flag_c_csv, flag_j_json, lib_two, idx, lib_one_asin, lib_two_asin,
                   first_compare, second_compare, calls, files, report>>

GetLibraryTwo ==
    /\ pc = "get_two"
    /\ \E response \in Responses :
        LET got == get_library(response)
        IN  /\ fetched' = [fetched EXCEPT !.Two = Summary(response)]
            /\ lib_two' = got.library
            /\ pc' = IF got.outcome = "ok" THEN "reindex_one" ELSE got.outcome
    /\ UNCHANGED <<flag_c_csv, flag_j_json, lib_one, idx, lib_one_asin, lib_two_asin,
                   first_compare, second_compare, calls, files, report>>

\* variants of the reindex step: without the 'not in' test, without the 'ab.asin' test
ReindexStepOverwrite(lib_asin, ab) ==
    IF ab.asin # "" THEN DictSet(lib_asin, ab.asin, ab) ELSE lib_asin

ReindexStepKeepEmpty(lib_asin, ab) ==
    IF ~Has(lib_asin, ab.asin) THEN DictSet(lib_asin, ab.asin, ab) ELSE lib_asin

\* one iteration of 'if ab.asin and ab.asin not in lib_asin: lib_asin[ab.asin] = ab'
ReindexStep(lib_asin, ab) ==
    IF ab.asin # "" /\ ~Has(lib_asin, ab.asin)
    THEN DictSet(lib_asin, ab.asin, ab)
    ELSE lib_asin

ReindexOne ==
    /\ pc = "reindex_one"
    /\ IF idx <= Len(lib_one)
       THEN /\ lib_one_asin' = ReindexStep(lib_one_asin, Values(lib_one)[idx])
            /\ idx' = idx + 1
            /\ pc' = pc
       ELSE /\ idx' = 1
            /\ pc' = "reindex_two"
            /\ UNCHANGED lib_one_asin
    /\ UNCHANGED <<flag_c_csv, flag_j_json, fetched, lib_one, lib_two, lib_two_asin,
                   first_compare, second_compare, calls, files, report>>

ReindexTwo ==
    /\ pc = "reindex_two"
    /\ IF idx <= Len(lib_two)
       THEN /\ lib_two_asin' = ReindexStep(lib_two_asin, Values(lib_two)[idx])
            /\ idx' = idx + 1
            /\ pc' = pc
       ELSE /\ idx' = 1
            /\ pc' = "first_compare"
            /\ UNCHANGED lib_two_asin
    /\ UNCHANGED <<flag_c_csv, flag_j_json, fetched, lib_one, lib_two, lib_one_asin,
                   first_compare, second_compare, calls, files, report>>

FirstCompare ==
    /\ pc = "first_compare"
    /\ first_compare' = compare_libs(lib_one_asin, lib_two_asin)
    /\ pc' = "second_compare"
    /\ UNCHANGED <<flag_c_csv, flag_j_json, fetched, lib_one, lib_two, idx, lib_one_asin,
                   lib_two_asin, second_compare, calls, files, report>>

SecondCompare ==
    /\ pc = "second_compare"
    /\ second_compare' = compare_libs(lib_two_asin, lib_one_asin)
    /\ pc' = "write_both"
    /\ UNCHANGED <<flag_c_csv, flag_j_json, fetched, lib_one, lib_two, idx, lib_one_asin,
                   lib_two_asin, first_compare, calls, files, report>>

\* one write_output call of main
Write(at, contents, out_type, next) ==
    /\ pc = at
    /\ calls' = Append(calls, [out_type |-> out_type, contents |-> contents])
    /\ files' = files \o write_output(contents, out_type, flag_j_json, flag_c_csv)
    /\ pc' = next
    /\ UNCHANGED <<flag_c_csv, flag_j_json, fetched, lib_one, lib_two, idx, lib_one_asin,
                   lib_two_asin, first_compare, second_compare, report>>

WriteBoth == Write("write_both", first_compare.both, "both", "write_one")

WriteOne == Write("write_one", lib_one, "one", "write_two_full")

WriteTwoFull == Write("write_two_full", lib_two, "two_full", "report")

Report ==
    /\ pc = "report"
    /\ report' = <<[one_entries |-> Len(lib_one),
                    one_asin_len |-> Len(lib_one_asin),
                    one_missing_len |-> Len(second_compare.missing),
                    two_entries |-> Len(lib_two),
                    two_asin_len |-> Len(lib_two_asin),
                    two_missing_len |-> Len(first_compare.missing),
                    len_both |-> Len(first_compare.both)]>>
    /\ pc' = "done"
    /\ UNCHANGED <<flag_c_csv, flag_j_json, fetched, lib_one, lib_two, idx, lib_one_asin,
                   lib_two_asin, first_compare, second_compare, calls, files>>

Next ==
    \/ LoadConfig
    \/ GetLibraryOne
    \/ GetLibraryTwo
    \/ ReindexOne
    \/ ReindexTwo
    \/ FirstCompare
    \/ SecondCompare
    \/ WriteBoth
    \/ WriteOne
    \/ WriteTwoFull
    \/ Report

Spec == Init /\ [][Next]_vars

\* ---------------------------------------------------------------- typing
DictOK(d) == \A i, j \in 1..Len(d) : d[i].key = d[j].key => i = j

TypeOK ==
    /\ pc \in {"load_config", "get_one", "get_two", "reindex_one", "reindex_two", "first_compare",
               "second_compare", "write_both", "write_one", "write_two_full", "report", "done",
               "exit", "crash"}
    /\ DictOK(lib_one) /\ DictOK(lib_two)
    /\ DictOK(lib_one_asin) /\ DictOK(lib_two_asin)
    /\ \A i \in 1..Len(lib_one) : lib_one[i].key = lib_one[i].value.id

\* ---------------------------------------------------------------- properties
Pos(d, k) == CHOOSE i \in 1..Len(d) : d[i].key = k

EntrySet(d) == {d[i] : i \in 1..Len(d)}

AfterReindexOne == pc \in {"reindex_two", "first_compare", "second_compare", "write_both",
                           "write_one", "write_two_full", "report", "done"}

AfterReindexTwo == pc \in {"first_compare", "second_compare", "write_both", "write_one",
                           "write_two_full", "report", "done"}

AfterFirstCompare == pc \in {"second_compare", "write_both", "write_one", "write_two_full",
                             "report", "done"}

AfterSecondCompare == pc \in {"write_both", "write_one", "write_two_full", "report", "done"}

\* the asins carried by the first n records of a catalog
AsinsOf(lib, n) == {lib[i].value.asin : i \in 1..n} \ {""}

\* the first record, in iteration order, whose asin is a
FirstWith(lib, a) ==
    lib[CHOOSE i \in 1..Len(lib) :
            /\ lib[i].value.asin = a
            /\ \A j \in 1..(i - 1) : lib[j].value.asin # a].value

\* how many records of lib the reindex loop over it has consumed
Consumed(lib, at, after) ==
    IF pc = at THEN idx - 1 ELSE IF after THEN Len(lib) ELSE 0

FirstSeen(lib, lib_asin, n) ==
    /\ Keys(lib_asin) = AsinsOf(lib, n)
    /\ \A a \in Keys(lib_asin) : Get(lib_asin, a) = FirstWith(lib, a)

\* C1: reindexing is first-seen-wins. Whatever part of a catalog the reindex
\* loop has consumed, the asin-keyed catalog has exactly the non-empty asins
\* seen so far as keys and maps each to the first record, in the catalog's
\* iteration order, that carries it; a later record with the same asin changes
\* nothing, and the loop never ends the run.
C1_FirstSeenWins ==
    /\ FirstSeen(lib_one, lib_one_asin, Consumed(lib_one, "reindex_one", AfterReindexOne))
    /\ FirstSeen(lib_two, lib_two_asin, Consumed(lib_two, "reindex_two", AfterReindexTwo))
    /\ (fetched.One.state = "complete" /\ fetched.Two.state = "complete")
           => pc \notin {"exit", "crash"}

\* a finished reindex of a catalog in which two records share a non-empty asin
C1_Witness ==
    /\ AfterReindexOne
    /\ \E i, j \in 1..Len(lib_one) :
          /\ i < j
          /\ lib_one[i].value.asin # ""
          /\ lib_one[i].value.asin = lib_one[j].value.asin
          /\ lib_one[i].value # lib_one[j].value

ReindexInv(lib, lib_asin) ==
    /\ \A i \in 1..Len(lib_asin) :
          /\ lib_asin[i].key # ""
          /\ lib_asin[i].key = lib_asin[i].value.asin
          /\ \E j \in 1..Len(lib) : lib[j].value = lib_asin[i].value
    /\ \A i \in 1..Len(lib_asin) : lib_asin[i].value.asin # ""
    /\ Len(lib_asin) <= Len(lib)

\* C2: after every step of the reindex loop and at its end, every entry of an
\* asin-keyed catalog has a non-empty key, the key is its record's asin and the
\* record is one of the input catalog; no record with an empty asin is in the
\* output and the output is no larger than the input.
C2_ReindexInvariant ==
    /\ ReindexInv(lib_one, lib_one_asin)
    /\ ReindexInv(lib_two, lib_two_asin)

\* the loop over library one has passed a record with an empty asin and kept another
C2_Witness ==
    /\ pc = "reindex_one"
    /\ idx > 1
    /\ \E i \in 1..(idx - 1) : lib_one[i].value.asin = ""
    /\ lib_one_asin # <<>>

Partitioned(result, left, right) ==
    /\ DictOK(result.both)
    /\ DictOK(result.missing)
    /\ EntrySet(result.both) = {e \in EntrySet(left) : e.key \in Keys(right)}
    /\ EntrySet(result.missing) = {e \in EntrySet(left) : e.key \notin Keys(right)}
    /\ left = <<>> => (result.both = <<>> /\ result.missing = <<>>)
    /\ right = <<>> => (result.both = <<>> /\ result.missing = left)

\* C3: compare_libs(left, right) returns as 'both' exactly left's entries whose
\* key is a key of right and as 'missing' exactly left's entries whose key is
\* not; the values are left's records; an empty left gives two empty outputs
\* and an empty right gives an empty 'both' and 'missing' equal to left.
C3_ComparePartition ==
    /\ AfterFirstCompare => Partitioned(first_compare, lib_one_asin, lib_two_asin)
    /\ AfterSecondCompare => Partitioned(second_compare, lib_two_asin, lib_one_asin)

\* a comparison with a shared asin whose two records differ, and an unshared one
C3_Witness ==
    /\ AfterFirstCompare
    /\ first_compare.missing # <<>>
    /\ \E k \in Keys(first_compare.both) : Get(lib_one_asin, k) # Get(lib_two_asin, k)

Reconstructs(result, left) ==
    /\ Keys(result.both) \cap Keys(result.missing) = {}
    /\ EntrySet(result.both) \cup EntrySet(result.missing) = EntrySet(left)
    /\ Keys(result.both) \cup Keys(result.missing) = Keys(left)
    /\ Len(result.both) + Len(result.missing) = Len(left)

\* C4: the 'both' and 'missing' outputs of compare_libs(left, right) have
\* disjoint key sets and together are exactly left: no key lost, none in both
\* outputs, none added.
C4_Reconstructs ==
    /\ AfterFirstCompare => Reconstructs(first_compare, lib_one_asin)
    /\ AfterSecondCompare => Reconstructs(second_compare, lib_two_asin)

\* both directions compared: one splits its catalog in two, the other finds all shared
C4_Witness ==
    /\ AfterSecondCompare
    /\ first_compare.both # <<>> /\ first_compare.missing # <<>>
    /\ second_compare.both # <<>> /\ second_compare.missing = <<>>

\* C5: the 'both' outputs of the two directions have the same key set.
C5_BothSymmetric ==
    AfterSecondCompare => Keys(first_compare.both) = Keys(second_compare.both)

\* the two directions share a key and return different records for it
C5_Witness ==
    /\ AfterSecondCompare
    /\ \E k \in Keys(first_compare.both) :
          Get(first_compare.both, k) # Get(second_compare.both, k)

OrderPreserved(out, left) ==
    \A i, j \in 1..Len(out) :
        i < j => /\ Has(left, out[i].key)
                 /\ Has(left, out[j].key)
                 /\ Pos(left, out[i].key) < Pos(left, out[j].key)

\* C6: the key sequences of 'both' and of 'missing' are subsequences of left's
\* key order.
C6_OrderPreserving ==
    /\ AfterFirstCompare => /\ OrderPreserved(first_compare.both, lib_one_asin)
                            /\ OrderPreserved(first_compare.missing, lib_one_asin)
    /\ AfterSecondCompare => /\ OrderPreserved(second_compare.both, lib_two_asin)
                             /\ OrderPreserved(second_compare.missing, lib_two_asin)

\* two shared keys that the two catalogs hold in opposite orders
C6_Witness ==
    /\ AfterSecondCompare
    /\ Len(first_compare.both) >= 2
    /\ KeySeq(first_compare.both) # KeySeq(second_compare.both)

\* C7: a fetch that does not produce a complete catalog ends the run with
\* nothing written; write_output is called only after both fetches returned a
\* complete catalog, and reindexing and comparison see every item the server
\* listed.
C7_NoOutputOnFailedFetch ==
    /\ \A l \in {"One", "Two"} :
          fetched[l].state = "failed" =>
              /\ pc \in {"exit", "crash"}
              /\ calls = <<>>
              /\ files = <<>>
              /\ lib_one_asin = <<>> /\ lib_two_asin = <<>>
    /\ (calls # <<>> \/ files # <<>>) =>
          /\ fetched.One.state = "complete"
          /\ fetched.Two.state = "complete"
    /\ (pc = "reindex_one" \/ AfterReindexOne) =>
          /\ fetched.One.state = "complete" /\ Keys(lib_one) = fetched.One.ids
          /\ fetched.Two.state = "complete" /\ Keys(lib_two) = fetched.Two.ids

\* the first fetch gave a catalog, the second failed on a response that lists items
C7_Witness ==
    /\ fetched.One.state = "complete"
    /\ lib_one # <<>>
    /\ fetched.Two.state = "failed"
    /\ fetched.Two.ids # {}
    /\ flag_c_csv

Datasets == {calls[i].contents : i \in 1..Len(calls)}

\* C8: a run that completes with output enabled hands five datasets to the
\* writer: both 'missing' deltas, the shared 'both' set and the two full
\* catalogs.
C8_FiveDatasetsWritten ==
    (pc = "done" /\ (flag_c_csv \/ flag_j_json)) =>
        /\ Len(calls) = 5
        /\ {first_compare.missing, second_compare.missing, first_compare.both,
            lib_one, lib_two} \subseteq Datasets

FullDump(out_type) == out_type \in {"one", "two_full"}

ExpectedRow(book, out_type) ==
    <<book.title, book.author, book.series, book.year, book.asin, book.isbn>>
        \o (IF FullDump(out_type) THEN <<book.added, book.files, book.size>> ELSE <<>>)

CsvFile(out_type) ==
    CHOOSE f \in EntrySet(files) : f.name = FILEBASE \o out_type \o ".csv"

\* C9: every csv row is (title, author, series, year, asin, isbn), followed by
\* (added, files, size) only in a full-catalog dump, so that the row lines up
\* with the header row.
C9_CsvRowShape ==
    flag_c_csv =>
        \A c \in 1..Len(calls) :
            LET f == CsvFile(calls[c].out_type)
            IN  /\ f.content[1] = csv_header
                /\ \A i \in 1..Len(calls[c].contents) :
                      f.content[i + 1] = ExpectedRow(calls[c].contents[i].value, calls[c].out_type)

\* C10: no asin is reported missing in both directions, and the reported
\* counts add up: unique asins of a library = in both + missing from the other.
C10_MissingDisjointCounts ==
    /\ AfterSecondCompare =>
          Keys(first_compare.missing) \cap Keys(second_compare.missing) = {}
    /\ pc = "done" =>
          /\ report[1].one_asin_len = report[1].len_both + report[1].two_missing_len
          /\ report[1].two_asin_len = report[1].len_both + report[1].one_missing_len
          /\ report[1].one_asin_len = Len(lib_one_asin)
          /\ report[1].two_asin_len = Len(lib_two_asin)

\* a finished run that reports asins missing in each direction
C10_Witness ==
    /\ pc = "done"
    /\ report[1].one_missing_len > 0
    /\ report[1].two_missing_len > 0

====
